---- MODULE Spec2Model ----
(***************************************************************************)
(* Model of src/src/components/QRCodeAuth.jsx: the QRCodeAuth component,   *)
(* its export effect (keypair resolution over three storage tiers and the  *)
(* two encodings), its import handler handleScan with the asynchronous     *)
(* user.auth call, and the buttons that drive the component state.         *)
(*                                                                         *)
(* JavaScript values are tagged records.  A string is a sequence of        *)
(* character codes.  A text that was produced by an encoder is a string    *)
(* whose content is kept in structured form (enc), so that a decoder only  *)
(* succeeds on what the matching encoder produced.                         *)
(***************************************************************************)
EXTENDS Integers, Sequences, FiniteSets, TLC

(* ----------------------------- bounds ---------------------------------- *)

\* Cap on simultaneously pending user.auth calls explored by the model.
MaxPending == 2

(* ------------------------- JavaScript values --------------------------- *)

JUndef == [t |-> "undefined"]
JNull == [t |-> "null"]
JNum(n) == [t |-> "number", n |-> n]
JStr(s) == [t |-> "string", enc |-> "plain", s |-> s]
JObj(f) == [t |-> "object", f |-> f]
JArr == [t |-> "array"]

\* An error message (a non-empty string whose characters are not modelled).
Msg(m) == [t |-> "string", enc |-> "message", m |-> m]

\* JavaScript truthiness, as used by !x, x || y and x && y.
Truthy(v) ==
  CASE v.t = "undefined" -> FALSE
    [] v.t = "null" -> FALSE
    [] v.t = "number" -> v.n # 0
    [] v.t = "string" -> IF v.enc = "plain" THEN v.s # << >> ELSE v.enc # "empty"
    [] OTHER -> TRUE

\* Property read v.k on a value that is neither null nor undefined.
Get(v, k) ==
  IF v.t = "object" /\ k \in DOMAIN v.f THEN v.f[k] ELSE JUndef

\* v.k throws a TypeError when v is null or undefined.
Nullish(v) == v.t \in {"null", "undefined"}

(* ------------------------------ strings -------------------------------- *)

\* "shogun-auth-pair"
ShogunAuthPair == <<115, 104, 111, 103, 117, 110, 45, 97, 117, 116, 104, 45, 112, 97, 105, 114>>
\* "1.0"
Version10 == <<49, 46, 48>>
\* "9.9"
Version99 == <<57, 46, 57>>
\* "other"
OtherType == <<111, 116, 104, 101, 114>>
\* "alice"
Alice == <<97, 108, 105, 99, 101>>
\* An alias in Cyrillic letters (character codes above 255).
Alisa == <<1040, 1083, 1080, 1089, 1072>>

\* String.prototype.substring(0, n)
Substring0(s, n) == SubSeq(s, 1, IF Len(s) < n THEN Len(s) ELSE n)

\* Key material: twelve-character public keys, short private keys.
PubA == <<65, 49, 50, 51, 52, 53, 54, 55, 56, 57, 48, 120>>
PubB == <<66, 49, 50, 51, 52, 53, 54, 55, 56, 57, 48, 121>>
PrivA == <<97, 49>>
PrivB == <<98, 49>>
EpubA == <<65, 101>>
EpubB == <<66, 101>>
EprivA == <<97, 101>>
EprivB == <<98, 101>>

PairFields == {"pub", "priv", "epub", "epriv"}

KA == JObj([pub |-> JStr(PubA), priv |-> JStr(PrivA), epub |-> JStr(EpubA), epriv |-> JStr(EprivA)])
KB == JObj([pub |-> JStr(PubB), priv |-> JStr(PrivB), epub |-> JStr(EpubB), epriv |-> JStr(EprivB)])
\* Partial keypairs: a field absent, a field the empty string.
KNoEpub == JObj([pub |-> JStr(PubA), priv |-> JStr(PrivA), epriv |-> JStr(EprivA)])
KNoEpriv == JObj([pub |-> JStr(PubA), priv |-> JStr(PrivA), epub |-> JStr(EpubA)])
KNoPriv == JObj([pub |-> JStr(PubA), epub |-> JStr(EpubA), epriv |-> JStr(EprivA)])
KEmptyPub == JObj([pub |-> JStr(<< >>), priv |-> JStr(PrivA), epub |-> JStr(EpubA), epriv |-> JStr(EprivA)])
KEmptyEpub == JObj([pub |-> JStr(PubB), priv |-> JStr(PrivB), epub |-> JStr(<< >>), epriv |-> JStr(EprivB)])

(* ------------------------ encoders and decoders ------------------------ *)

\* JSON.stringify drops the properties whose value is undefined.
DropUndefined(v) ==
  IF v.t = "object"
    THEN JObj([k \in {j \in DOMAIN v.f : v.f[j].t # "undefined"} |-> v.f[k]])
    ELSE v

\* JSON.stringify(v): the JSON text of v.
JSONstringify(v) ==
  [t |-> "string", enc |-> "json",
   v |-> IF v.t = "object"
           THEN JObj([k \in DOMAIN DropUndefined(v).f |-> DropUndefined(v.f[k])])
           ELSE v]

\* JSON.parse(text): the value, or a SyntaxError for a text that is no JSON.
JSONparse(text) ==
  IF text.t = "string" /\ text.enc = "json"
    THEN [ok |-> TRUE, v |-> text.v]
    ELSE [ok |-> FALSE, message |-> Msg("SyntaxError: Unexpected token")]

\* All characters of a plain string are Latin-1 (code <= 255).
Latin1(s) == \A i \in 1..Len(s) : s[i] <= 255

\* All strings of a JSON value (two levels deep) are Latin-1.
AllLatin1(v) ==
  CASE v.t = "string" -> v.enc # "plain" \/ Latin1(v.s)
    [] v.t = "object" ->
         \A k \in DOMAIN v.f :
           CASE v.f[k].t = "string" -> v.f[k].enc # "plain" \/ Latin1(v.f[k].s)
             [] v.f[k].t = "object" ->
                  \A j \in DOMAIN v.f[k].f :
                    v.f[k].f[j].t = "string" => Latin1(v.f[k].f[j].s)
             [] OTHER -> TRUE
    [] OTHER -> TRUE

\* btoa(text): the base64 text, or an InvalidCharacterError.
Btoa(text) ==
  IF text.enc = "json" /\ ~AllLatin1(text.v)
    THEN [ok |-> FALSE, message |-> Msg("InvalidCharacterError")]
    ELSE [ok |-> TRUE, v |-> [t |-> "string", enc |-> "base64", of |-> text]]

\* window.location.origin
Origin == "https://app.example"

\* new URL(origin); url.searchParams.set(name, value); url.toString()
UrlWithParam(origin, name, value) ==
  [t |-> "string", enc |-> "url", origin |-> origin, name |-> name,
   value |-> [enc |-> "urlencoded", of |-> value]]

(* --------------------------- the environment --------------------------- *)

\* localStorage.getItem throws (storage blocked).
LocalThrows == [t |-> "exception"]
\* The literal text "not json" / a corrupt stored entry.
NotJson == [t |-> "string", enc |-> "garbage"]
\* The empty string.
EmptyText == [t |-> "string", enc |-> "empty"]

\* core.storage: absent, or an object whose getPairSync() returns a value.
StorageValues ==
  {JUndef, JObj([getPairSync |-> JNull]), JObj([getPairSync |-> KA]),
   JObj([getPairSync |-> KNoEpub])}

\* localStorage 'shogun_keypair': unreadable, absent, corrupt, or a JSON text.
LocalValues ==
  {LocalThrows, JNull, NotJson, JSONstringify(KB), JSONstringify(KEmptyEpub)}

\* core.user._.sea and gun.user()._.sea: the session's own pair, when set.
CoreSeaValues == {JUndef, KNoEpriv}
GunSeaValues == {JUndef, KA}

\* gun.user().is: absent when nobody is logged in.
UserIsValues ==
  {JUndef, JObj([pub |-> JStr(PubA), alias |-> JStr(Alice)]), JObj([pub |-> JStr(PubA)]),
   JObj([pub |-> JStr(PubA), alias |-> JStr(Alisa)])}

\* core: null, an SDK without a Gun instance, or an SDK with one.
CoreValues == {"null", "nogun", "ok"}

\* Date.now(), in milliseconds from the start of the session.
Times == {1000, 1300}

Environments ==
  [core : CoreValues, storage : StorageValues, local : LocalValues,
   coreSea : CoreSeaValues, gunSea : GunSeaValues, userIs : UserIsValues]

(* ----------------------------- export effect --------------------------- *)

\* Method 1: core.storage.getPairSync(), when that function exists.
Method1(e) ==
  IF e.storage.t = "object" /\ "getPairSync" \in DOMAIN e.storage.f
    THEN e.storage.f.getPairSync
    ELSE JNull

\* Variant: a stored text that does not parse is kept as the pair.
Method2KeepsCorruptText(e, seaPair) ==
  IF Truthy(seaPair) THEN seaPair
  ELSE IF e.local.t = "exception" THEN seaPair
  ELSE IF ~Truthy(e.local) THEN seaPair
  ELSE IF JSONparse(e.local).ok THEN JSONparse(e.local).v
  ELSE e.local

\* Method 2: localStorage fallback, tried when method 1 gave a falsy value.
Method2(e, seaPair) ==
  IF Truthy(seaPair) THEN seaPair
  ELSE IF e.local.t = "exception" THEN seaPair
  ELSE IF ~Truthy(e.local) THEN seaPair
  ELSE IF JSONparse(e.local).ok THEN JSONparse(e.local).v
  ELSE seaPair

\* Method 3: legacy Gun properties, tried when the value is still falsy.
Method3(e, seaPair) ==
  IF Truthy(seaPair) THEN seaPair
  ELSE IF Truthy(e.coreSea) THEN e.coreSea ELSE e.gunSea

\* The value of seaPair when the completeness check is reached.
ResolveSeaPair(e) == Method3(e, Method2(e, Method1(e)))

\* Variant: only the two signing fields are checked.
SeaPairSigningOnly(seaPair) ==
  /\ Truthy(seaPair)
  /\ Truthy(Get(seaPair, "pub"))
  /\ Truthy(Get(seaPair, "priv"))

\* The check of the resolved pair: truthy with four truthy fields.
SeaPairComplete(seaPair) ==
  /\ Truthy(seaPair)
  /\ \A k \in PairFields : Truthy(Get(seaPair, k))

\* The exportData object.
ExportData(seaPair, userIs, now) ==
  JObj([type |-> JStr(ShogunAuthPair),
        version |-> JStr(Version10),
        pair |-> JObj([pub |-> Get(seaPair, "pub"), priv |-> Get(seaPair, "priv"),
                       epub |-> Get(seaPair, "epub"), epriv |-> Get(seaPair, "epriv")]),
        username |-> IF Truthy(Get(userIs, "alias"))
                       THEN Get(userIs, "alias")
                       ELSE JStr(Substring0(Get(userIs, "pub").s, 10)),
        exportedAt |-> JNum(now)])

\* The encoding of exportData in the selected format, or a thrown error.
Encode(exportData, format) ==
  IF format = "link"
    THEN IF Btoa(JSONstringify(exportData)).ok
           THEN [ok |-> TRUE,
                 v |-> UrlWithParam(Origin, "magic_login", Btoa(JSONstringify(exportData)).v)]
           ELSE [ok |-> FALSE, message |-> Btoa(JSONstringify(exportData)).message]
    ELSE [ok |-> TRUE, v |-> JSONstringify(exportData)]

\* The try block of the effect: the encoding, or the message of the error.
TryExport(e, format, now) ==
  IF e.core # "ok" THEN [ok |-> FALSE, message |-> Msg("Gun instance not available")]
  ELSE IF ~Truthy(e.userIs) \/ ~Truthy(Get(e.userIs, "pub"))
    THEN [ok |-> FALSE, message |-> Msg("User not authenticated")]
  ELSE IF ~SeaPairComplete(ResolveSeaPair(e))
    THEN [ok |-> FALSE, message |-> Msg("SEA pair not available - try logging in again")]
  ELSE Encode(ExportData(ResolveSeaPair(e), e.userIs, now), format)

\* The effect: the values of exportKeys and error after it has run.
ExportEffect(e, m, open, format, now, err) ==
  IF m # "export" \/ e.core = "null" \/ ~open
    THEN [exportKeys |-> JNull, error |-> err]
  ELSE IF TryExport(e, format, now).ok
    THEN [exportKeys |-> TryExport(e, format, now).v, error |-> JNull]
    ELSE [exportKeys |-> JNull, error |-> TryExport(e, format, now).message]

(* ----------------------------- scan payloads --------------------------- *)

\* An envelope object with the given type, version and pair (undefined = absent).
Envelope(type, version, pair) ==
  JObj([type |-> type, version |-> version, pair |-> pair,
        username |-> JStr(Alice), exportedAt |-> JNum(1000)])

\* gun.user().is of the exporting account.
AliceIs == JObj([pub |-> JStr(PubA), alias |-> JStr(Alice)])

\* gun.user().is of an exporting account without alias.
NoAliasIs == JObj([pub |-> JStr(PubB)])

\* The encodings the export effect produces for KA of alice and for KB of
\* the account without alias.
RawOfKA == Encode(ExportData(KA, AliceIs, 1000), "json").v
LinkOfKA == Encode(ExportData(KA, AliceIs, 1000), "link").v
RawOfKB == Encode(ExportData(KB, NoAliasIs, 1300), "json").v
LinkOfKB == Encode(ExportData(KB, NoAliasIs, 1300), "link").v

\* Texts that are JSON but not an object.
NonObjectTexts ==
  {JSONstringify(JNull), JSONstringify(JNum(5)), JSONstringify(JStr(Alice)),
   JSONstringify(JArr)}

\* Objects lacking one of the top-level fields type, version, pair.
LackingFieldTexts ==
  {JSONstringify(Envelope(JUndef, JStr(Version10), KA)),
   JSONstringify(Envelope(JStr(ShogunAuthPair), JUndef, KA)),
   JSONstringify(Envelope(JStr(ShogunAuthPair), JStr(Version10), JUndef))}

\* Envelopes of another type.
WrongTypeTexts ==
  {JSONstringify(Envelope(JStr(OtherType), JStr(Version10), KA)),
   JSONstringify(Envelope(JStr(OtherType), JStr(Version99), KNoEpub))}

\* Envelopes of the right type with a version other than "1.0".
WrongVersionTexts ==
  {JSONstringify(Envelope(JStr(ShogunAuthPair), JStr(Version99), KA))}

\* Envelopes of the right type whose pair misses a field or has an empty one.
IncompletePairTexts ==
  {JSONstringify(Envelope(JStr(ShogunAuthPair), JStr(Version10), k)) :
     k \in {KNoEpub, KNoEpriv, KNoPriv, KEmptyPub, KEmptyEpub}}

\* What the scanner may pass to onScan.
ScanData ==
  {JNull, EmptyText, NotJson, RawOfKA, LinkOfKA, RawOfKB, LinkOfKB}
    \cup NonObjectTexts \cup LackingFieldTexts \cup WrongTypeTexts
    \cup WrongVersionTexts \cup IncompletePairTexts

\* What user.auth may pass to its callback: no error, or an error text.
Acks == {[err |-> JUndef], [err |-> Msg("Wrong user or password.")]}

(* ------------------------------ handleScan ----------------------------- *)

\* Variant: only null counts as no data.
NoDataNullOnly(data) == data.t = "null"

\* !data
NoData(data) == ~Truthy(data)

\* Variant: the error of the ack is not looked at.
AckErrIgnored(ack) == FALSE

\* ack.err
AckRejected(ack) == Truthy(ack.err)

\* Variant: the type only has to be present.
TypePresent(scanData) == Truthy(Get(scanData, "type"))

\* scanData.type === "shogun-auth-pair"
TypeOk(scanData) == Get(scanData, "type") = JStr(ShogunAuthPair)

\* scanData.pair && scanData.pair.pub && scanData.pair.priv
PairOk(scanData) ==
  /\ Truthy(Get(scanData, "pair"))
  /\ Truthy(Get(Get(scanData, "pair"), "pub"))
  /\ Truthy(Get(Get(scanData, "pair"), "priv"))

\* Variant: a pair rebuilt from the two checked fields.
AuthArgumentSigningOnly(scanData) ==
  JObj([pub |-> Get(Get(scanData, "pair"), "pub"),
        priv |-> Get(Get(scanData, "pair"), "priv")])

\* The pair handed to user.auth.
AuthArgument(scanData) == Get(scanData, "pair")

\* The try block of handleScan up to the await: a thrown error, or the
\* argument of the user.auth call it makes.
ScanOutcome(data, e) ==
  IF ~JSONparse(data).ok
    THEN [call |-> FALSE, message |-> JSONparse(data).message]
  ELSE IF Nullish(JSONparse(data).v)
    THEN [call |-> FALSE, message |-> Msg("TypeError: Cannot read properties of null")]
  ELSE IF ~TypeOk(JSONparse(data).v)
    THEN [call |-> FALSE, message |-> Msg("Invalid QR code format")]
  ELSE IF ~PairOk(JSONparse(data).v)
    THEN [call |-> FALSE, message |-> Msg("Invalid key pair structure")]
  ELSE IF e.core = "null"
    THEN [call |-> FALSE, message |-> Msg("TypeError: Cannot read properties of null")]
  ELSE IF e.core = "nogun"
    THEN [call |-> FALSE, message |-> Msg("Gun instance not available")]
  ELSE [call |-> TRUE, pair |-> AuthArgument(JSONparse(data).v)]

(* ------------------------------- state --------------------------------- *)

VARIABLES
  mode,          \* useState: "export" or "import"
  exportFormat,  \* useState: "json" or "link"
  exportKeys,    \* useState: null or the encoded text
  scanning,      \* useState
  error,         \* useState: null or a message
  loading,       \* useState
  isOpen,        \* prop
  env,           \* core, the storage tiers and the logged-in user
  pending,       \* user.auth calls whose callback has not fired yet
  onCloseCalled, \* onClose() has been called by handleScan
  reloaded,      \* window.location.reload() has been called
  lastEvent      \* the handler that ran last, with its argument

vars ==
  <<mode, exportFormat, exportKeys, scanning, error, loading, isOpen, env,
    pending, onCloseCalled, reloaded, lastEvent>>

Event(op, arg) == [op |-> op, arg |-> arg]

\* The state after the first render and the first run of the effect.
Init ==
  /\ mode = "export"
  /\ exportFormat = "json"
  /\ scanning = FALSE
  /\ loading = FALSE
  /\ isOpen \in BOOLEAN
  /\ env \in Environments
  /\ \E now \in Times :
       /\ exportKeys = ExportEffect(env, "export", isOpen, "json", now, JNull).exportKeys
       /\ error = ExportEffect(env, "export", isOpen, "json", now, JNull).error
  /\ pending = << >>
  /\ onCloseCalled = FALSE
  /\ reloaded = FALSE
  /\ lastEvent = Event("mount", JNull)

\* The modal is rendered and the page has not been reloaded.
Rendered == isOpen /\ ~reloaded

\* The QrReader is mounted.
ScannerMounted == Rendered /\ mode = "import" /\ scanning

\* Variant: the start-scan button is not disabled while loading.
StartScanNotDisabled == Rendered /\ mode = "import" /\ ~scanning

\* The start-scan button is shown and enabled.
StartScanEnabled == Rendered /\ mode = "import" /\ ~scanning /\ ~loading

\* The effect runs after a render in which one of its dependencies changed.
RunEffect(m, open, format, err) ==
  IF m # mode \/ open # isOpen \/ format # exportFormat
    THEN \E now \in Times :
           /\ exportKeys' = ExportEffect(env, m, open, format, now, err).exportKeys
           /\ error' = ExportEffect(env, m, open, format, now, err).error
    ELSE /\ exportKeys' = exportKeys
         /\ error' = err

\* Variant: the catch block does not clear loading.
CatchKeepsLoading(message) == [error |-> message, loading |-> loading]

\* The catch block of handleScan: setError(err.message), setLoading(false).
Catch(message) == [error |-> message, loading |-> FALSE]

(* ------------------------------ actions -------------------------------- *)

\* The two mode toggle buttons.
ClickMode(m) ==
  /\ Rendered
  /\ mode' = m
  /\ scanning' = FALSE
  /\ RunEffect(m, isOpen, exportFormat, JNull)
  /\ lastEvent' = Event(IF m = "export" THEN "clickExport" ELSE "clickImport", JNull)
  /\ UNCHANGED <<exportFormat, loading, isOpen, env, pending, onCloseCalled, reloaded>>

\* The two export format buttons.
ClickFormat(f) ==
  /\ Rendered
  /\ mode = "export"
  /\ exportFormat' = f
  /\ RunEffect(mode, isOpen, f, error)
  /\ lastEvent' = Event("clickFormat", JNull)
  /\ UNCHANGED <<mode, scanning, loading, isOpen, env, pending, onCloseCalled, reloaded>>

\* The start-scan button.
StartScan ==
  /\ StartScanEnabled
  /\ scanning' = TRUE
  /\ lastEvent' = Event("startScan", JNull)
  /\ UNCHANGED <<mode, exportFormat, exportKeys, error, loading, isOpen, env,
                 pending, onCloseCalled, reloaded>>

\* The cancel-scan button.
CancelScan ==
  /\ ScannerMounted
  /\ scanning' = FALSE
  /\ error' = JNull
  /\ lastEvent' = Event("cancelScan", JNull)
  /\ UNCHANGED <<mode, exportFormat, exportKeys, loading, isOpen, env,
                 pending, onCloseCalled, reloaded>>

\* handleScan(data), up to the await of the user.auth promise.
HandleScan(data) ==
  /\ ScannerMounted
  /\ lastEvent' = Event("handleScan", data)
  /\ IF NoData(data)
       THEN UNCHANGED <<scanning, loading, error, pending>>
       ELSE /\ scanning' = FALSE
            /\ IF ScanOutcome(data, env).call
                 THEN /\ Len(pending) < MaxPending
                      /\ loading' = TRUE
                      /\ error' = JNull
                      /\ pending' = Append(pending, [pair |-> ScanOutcome(data, env).pair])
                 ELSE /\ loading' = Catch(ScanOutcome(data, env).message).loading
                      /\ error' = Catch(ScanOutcome(data, env).message).error
                      /\ pending' = pending
  /\ UNCHANGED <<mode, exportFormat, exportKeys, isOpen, env, onCloseCalled, reloaded>>

\* handleScanError(err)
HandleScanError ==
  /\ ScannerMounted
  /\ error' = Msg("Errore durante la scansione. Assicurati che la fotocamera sia disponibile.")
  /\ lastEvent' = Event("handleScanError", JNull)
  /\ UNCHANGED <<mode, exportFormat, exportKeys, scanning, loading, isOpen, env,
                 pending, onCloseCalled, reloaded>>

\* The callback of the i-th pending user.auth call fires with ack, and
\* handleScan resumes after the await.
AuthCallback(i, ack) ==
  /\ ~reloaded
  /\ i \in 1..Len(pending)
  /\ pending' = SubSeq(pending, 1, i - 1) \o SubSeq(pending, i + 1, Len(pending))
  /\ lastEvent' = Event("authCallback", ack.err)
  /\ IF AckRejected(ack)
       THEN /\ error' = Catch(ack.err).error
            /\ loading' = Catch(ack.err).loading
            /\ UNCHANGED <<onCloseCalled, reloaded>>
       ELSE /\ onCloseCalled' = TRUE
            /\ reloaded' = TRUE
            /\ UNCHANGED <<error, loading>>
  /\ UNCHANGED <<mode, exportFormat, exportKeys, scanning, isOpen, env>>

\* downloadKeys(): the download button, shown for a non-link encoding.
DownloadKeys(fails) ==
  /\ Rendered
  /\ mode = "export"
  /\ Truthy(exportKeys)
  /\ exportKeys.enc # "url"
  /\ error' = IF fails THEN Msg("Errore durante il download") ELSE error
  /\ lastEvent' = Event("downloadKeys", JNull)
  /\ UNCHANGED <<mode, exportFormat, exportKeys, scanning, loading, isOpen, env,
                 pending, onCloseCalled, reloaded>>

\* The parent changes the isOpen prop.
SetIsOpen(open) ==
  /\ ~reloaded
  /\ open # isOpen
  /\ isOpen' = open
  /\ RunEffect(mode, open, exportFormat, error)
  /\ lastEvent' = Event("setIsOpen", JNull)
  /\ UNCHANGED <<mode, exportFormat, scanning, loading, env, pending,
                 onCloseCalled, reloaded>>

Next ==
  \/ \E m \in {"export", "import"} : ClickMode(m)
  \/ \E f \in {"json", "link"} : ClickFormat(f)
  \/ StartScan
  \/ CancelScan
  \/ \E data \in ScanData : HandleScan(data)
  \/ HandleScanError
  \/ \E i \in 1..MaxPending, ack \in Acks : AuthCallback(i, ack)
  \/ \E fails \in BOOLEAN : DownloadKeys(fails)
  \/ \E open \in BOOLEAN : SetIsOpen(open)

Spec == Init /\ [][Next]_vars

(* ------------------------------ properties ----------------------------- *)

\* The user cancels the scan or switches mode.
LeaveOps == {"cancelScan", "clickExport", "clickImport"}

\* A keypair with all four fields present and non-empty.
AllFourNonEmpty(p) ==
  /\ p.t = "object"
  /\ \A k \in PairFields :
       /\ k \in DOMAIN p.f
       /\ p.f[k].t = "string"
       /\ p.f[k].s # << >>

\* Two pairs with the same four field values.
SameKeypair(p, q) == \A k \in PairFields : Get(p, k) = Get(q, k)

\* C1: cancelling or leaving the import attempt while scanning or importing
\* leaves the controller neither scanning nor importing, and an
\* authentication result that arrives after it changes nothing in the
\* controller state.
C1_CancelDiscardsResult ==
  [][/\ (lastEvent'.op \in LeaveOps /\ mode = "import" /\ (scanning \/ loading))
          => (~scanning' /\ ~loading')
     /\ (lastEvent.op \in LeaveOps /\ lastEvent'.op = "authCallback")
          => UNCHANGED <<mode, exportFormat, exportKeys, scanning, error, loading,
                         onCloseCalled, reloaded>>]_vars

\* C2: at most one user.auth call is pending in every reachable state, and
\* while one is pending the scanner is not active, so no scan can start a
\* second call.
C2_AtMostOneHandshake ==
  /\ Len(pending) <= 1
  /\ (pending # << >> => ~scanning)

\* C2 witness: a call is pending and the user is back on the import screen,
\* where the start-scan button is shown.
C2_Witness ==
  /\ Len(pending) = 1
  /\ Rendered
  /\ mode = "import"
  /\ lastEvent.op = "clickImport"

\* C3: user.auth is only ever called with a keypair whose four fields are
\* present and non-empty, and a scanned envelope whose pair misses a field
\* ends with the key pair error and without a user.auth call.
C3_OnlyCompleteKeypairAuthenticated ==
  /\ \A i \in 1..Len(pending) : AllFourNonEmpty(pending[i].pair)
  /\ (lastEvent.op = "handleScan" /\ lastEvent.arg \in IncompletePairTexts)
       => /\ error = Msg("Invalid key pair structure")
          /\ ~loading
          /\ pending = << >>

\* What each storage tier holds, in the order of the resolver: the SDK
\* storage, the parsed 'shogun_keypair' entry, the legacy session fields.
TierContents(e) ==
  <<Method1(e),
    IF e.local.t = "string" /\ JSONparse(e.local).ok THEN JSONparse(e.local).v ELSE JNull,
    IF Truthy(e.coreSea) THEN e.coreSea ELSE e.gunSea>>

\* The keypair of the first tier that holds a complete keypair, else null.
FirstCompleteTier(e) ==
  IF \E i \in 1..3 : AllFourNonEmpty(TierContents(e)[i])
    THEN TierContents(e)[CHOOSE i \in 1..3 :
           /\ AllFourNonEmpty(TierContents(e)[i])
           /\ \A j \in 1..(i - 1) : ~AllFourNonEmpty(TierContents(e)[j])]
    ELSE JNull

\* The export effect reaches the resolver: modal open, export mode, a Gun
\* instance and a logged-in user.
ResolverReached ==
  /\ isOpen
  /\ mode = "export"
  /\ env.core = "ok"
  /\ Truthy(env.userIs)

\* The envelope carried by a presented encoding: the JSON text itself, or
\* the magic_login parameter of the link, base64-decoded and parsed.
DecodeExport(text) ==
  IF text.enc = "url" THEN text.value.of.of.v ELSE text.v

\* C4: the export presents the keypair of the first tier, in resolver order,
\* that holds a complete keypair; a tier holding nothing or a partial
\* keypair is skipped.
C4_FirstCompleteTierExported ==
  (ResolverReached /\ FirstCompleteTier(env) # JNull)
    => /\ Truthy(exportKeys)
       /\ SameKeypair(Get(DecodeExport(exportKeys), "pair"), FirstCompleteTier(env))

\* The export effect has just run its try block.
EffectRan ==
  /\ isOpen' /\ mode' = "export" /\ env.core # "null"
  /\ (isOpen # isOpen' \/ mode # mode' \/ exportFormat # exportFormat')

\* C5: a presented encoding always carries a keypair with four non-empty
\* fields; when no tier holds a complete keypair nothing is presented, and
\* the run of the export effect leaves an error message.
C5_NoPartialExport ==
  /\ [](Truthy(exportKeys) => AllFourNonEmpty(Get(DecodeExport(exportKeys), "pair")))
  /\ []((isOpen /\ mode = "export" /\ FirstCompleteTier(env) = JNull)
          => exportKeys = JNull)
  /\ [][(EffectRan /\ FirstCompleteTier(env) = JNull)
          => (exportKeys' = JNull /\ Truthy(error'))]_vars

\* C5 witness: the resolver ended on a partial keypair and the export
\* failed with the message instead of presenting it.
C5_Witness ==
  /\ ResolverReached
  /\ Truthy(ResolveSeaPair(env))
  /\ ~AllFourNonEmpty(ResolveSeaPair(env))
  /\ exportKeys = JNull
  /\ error = Msg("SEA pair not available - try logging in again")

\* The user.auth call made for keypair k is the only pending one.
OnlyCallIsFor(k) ==
  /\ Len(pending) = 1
  /\ SameKeypair(pending[1].pair, k)

\* C6: handleScan given the link that the export produced for keypair K
\* decodes it and calls user.auth with K, as for the raw text; it does not
\* fail to parse the link.
C6_LinkRoundTrip ==
  \A k \in {KA, KB} :
    (/\ lastEvent.op = "handleScan"
     /\ lastEvent.arg \in {LinkOfKA, LinkOfKB}
     /\ Get(DecodeExport(lastEvent.arg), "pair") = k
     /\ env.core = "ok")
      => (OnlyCallIsFor(k) /\ error = JNull)

\* C7: handleScan given the raw text that the export produced for keypair K
\* makes exactly one user.auth call, with the four field values of K; and
\* when a user.auth callback reports no error the modal is closed and the
\* page reloaded.
C7_RawRoundTrip ==
  /\ \A k \in {KA, KB} :
       (/\ lastEvent.op = "handleScan"
        /\ lastEvent.arg \in {RawOfKA, RawOfKB}
        /\ Get(DecodeExport(lastEvent.arg), "pair") = k
        /\ env.core = "ok")
         => (OnlyCallIsFor(k) /\ loading /\ error = JNull)
  /\ (lastEvent.op = "authCallback" /\ ~Truthy(lastEvent.arg))
       => (onCloseCalled /\ reloaded)

\* C7 witness: the raw text of KB has been scanned and its call is pending.
C7_Witness ==
  /\ lastEvent = Event("handleScan", RawOfKB)
  /\ OnlyCallIsFor(KB)

\* The scanned text ended the attempt with an error and no user.auth call.
Rejected == Truthy(error) /\ ~loading /\ pending = << >>

\* C8: an envelope with a version other than "1.0" is rejected although its
\* type is right and its keypair complete.
C8_UnsupportedVersionRejected ==
  (lastEvent.op = "handleScan" /\ lastEvent.arg \in WrongVersionTexts) => Rejected

\* C9: a text that is not JSON, or JSON but not an object, or an object
\* lacking type, version or pair, is rejected.
C9_MalformedPayloadRejected ==
  (/\ lastEvent.op = "handleScan"
   /\ lastEvent.arg \in {NotJson} \cup NonObjectTexts \cup LackingFieldTexts)
    => Rejected

\* C10: an envelope whose type is not "shogun-auth-pair" is rejected with
\* the format error, whatever its version and keypair.
C10_WrongTypeRejected ==
  (/\ lastEvent.op = "handleScan"
   /\ Truthy(lastEvent.arg)
   /\ JSONparse(lastEvent.arg).ok
   /\ JSONparse(lastEvent.arg).v.t = "object"
   /\ Get(JSONparse(lastEvent.arg).v, "type") # JStr(ShogunAuthPair))
    => (error = Msg("Invalid QR code format") /\ ~loading /\ pending = << >>)

\* C10 witness: an envelope of type "other" with version "1.0" and the
\* complete keypair KA has been scanned.
C10_Witness ==
  /\ lastEvent = Event("handleScan", JSONstringify(Envelope(JStr(OtherType), JStr(Version10), KA)))
  /\ error = Msg("Invalid QR code format")

\* C11: a user.auth callback that reports an error leaves that error set
\* and loading cleared, without close or reload; the modal is closed and the
\* page reloaded only by a user.auth callback that reported no error.
C11_AuthOutcomeMapping ==
  /\ (lastEvent.op = "authCallback" /\ Truthy(lastEvent.arg))
       => (error = lastEvent.arg /\ ~loading /\ ~onCloseCalled /\ ~reloaded)
  /\ (onCloseCalled \/ reloaded)
       => (lastEvent.op = "authCallback" /\ ~Truthy(lastEvent.arg))

\* C11 witness: the callback has just reported "Wrong user or password.".
C11_Witness ==
  /\ lastEvent = Event("authCallback", Msg("Wrong user or password."))
  /\ error = Msg("Wrong user or password.")
  /\ ~loading

\* C12: after a click on a mode button the controller is not scanning and
\* not loading, and in import mode it shows no error (on entering export
\* mode the export effect runs and may report its own failure).
C12_ModeSwitchResets ==
  lastEvent.op \in {"clickExport", "clickImport"}
    => (~scanning /\ ~loading /\ (mode = "import" => error = JNull))

\* C13: after a scan error the error is shown and the controller no longer
\* awaits a scan, so that no payload can be delivered to handleScan before
\* the user starts a new scan.
C13_ScanErrorTerminal ==
  lastEvent.op = "handleScanError"
    => (Truthy(error) /\ ~scanning /\ ~ScannerMounted)

\* What the legacy session fields hold.
LegacySea(e) == IF Truthy(e.coreSea) THEN e.coreSea ELSE e.gunSea

\* The presented encoding carries keypair k.
Exported(k) ==
  /\ Truthy(exportKeys)
  /\ SameKeypair(Get(DecodeExport(exportKeys), "pair"), k)

\* C14: when the SDK tier is empty and the 'shogun_keypair' entry cannot be
\* read or parsed, the export is decided by the legacy session fields alone
\* (their keypair is presented when complete, and no parse error is
\* reported otherwise); and when the SDK tier holds a complete keypair that
\* keypair is presented whatever the 'shogun_keypair' entry contains.
C14_CorruptLegacyCopySkipped ==
  /\ (/\ ResolverReached
      /\ exportFormat = "json"
      /\ ~Truthy(Method1(env))
      /\ env.local \in {LocalThrows, NotJson})
       => IF AllFourNonEmpty(LegacySea(env))
            THEN Exported(LegacySea(env))
            ELSE exportKeys = JNull /\ error # JSONparse(NotJson).message
  /\ (/\ ResolverReached
      /\ exportFormat = "json"
      /\ AllFourNonEmpty(Method1(env)))
       => Exported(Method1(env))

\* C14 witness: the stored entry is corrupt and the keypair of the legacy
\* session fields is presented.
C14_Witness ==
  /\ ResolverReached
  /\ ~Truthy(Method1(env))
  /\ env.local = NotJson
  /\ Exported(KA)

\* The envelope fields that both formats carry.
EnvelopeFields == {"type", "version", "pair", "username"}

\* C15: whenever the resolver yields a complete keypair and the link format
\* is selected, a link on the application's origin is presented whose
\* magic_login parameter decodes to the envelope of the raw format; the
\* characters of the alias never make the link export fail.
C15_LinkExportLossless ==
  (/\ ResolverReached
   /\ exportFormat = "link"
   /\ AllFourNonEmpty(ResolveSeaPair(env)))
    => /\ Truthy(exportKeys)
       /\ exportKeys.enc = "url"
       /\ exportKeys.origin = Origin
       /\ exportKeys.name = "magic_login"
       /\ \A k \in EnvelopeFields :
            Get(DecodeExport(exportKeys), k)
              = Get(JSONparse(Encode(ExportData(ResolveSeaPair(env), env.userIs, 1000), "json").v).v, k)

\* C16: the pair.pub of a presented encoding is the public key of the
\* logged-in user.
C16_ExportedPairIsActiveUsers ==
  Truthy(exportKeys)
    => Get(Get(DecodeExport(exportKeys), "pair"), "pub") = Get(env.userIs, "pub")

\* C17: the username of a presented envelope is the alias of the account
\* when it has one, and otherwise the first 10 characters of the pair.pub
\* of that envelope.
C17_UsernameFromAliasOrPairPub ==
  Truthy(exportKeys)
    => Get(DecodeExport(exportKeys), "username")
         = IF Truthy(Get(env.userIs, "alias"))
             THEN Get(env.userIs, "alias")
             ELSE JStr(Substring0(Get(Get(DecodeExport(exportKeys), "pair"), "pub").s, 10))

\* Every pending user.auth call eventually gets its callback.
FairSpec == Spec /\ WF_vars(\E i \in 1..MaxPending, ack \in Acks : AuthCallback(i, ack))

\* C18: a non-empty payload given to handleScan either fails at once (error
\* set, loading cleared) or leaves a user.auth call pending; loading is
\* always backed by a pending call or ended by the reload; and loading
\* always leads to the reload or to an error with loading cleared.
C18_ImportTerminates ==
  /\ []((lastEvent.op = "handleScan" /\ Truthy(lastEvent.arg))
          => \/ (~loading /\ Truthy(error) /\ pending = << >>)
             \/ (loading /\ Len(pending) = 1))
  /\ [](loading => (pending # << >> \/ reloaded))
  /\ (loading ~> (reloaded \/ (~loading /\ Truthy(error))))

\* C18 witness: a scan on a device without Gun instance has failed at once.
C18_Witness ==
  /\ lastEvent = Event("handleScan", RawOfKA)
  /\ env.core = "nogun"
  /\ error = Msg("Gun instance not available")
  /\ ~loading

\* C19: scanning and loading are never both true.
C19_ScanningExcludesLoading == ~(scanning /\ loading)

\* C19 witness: a scan has started a user.auth call: loading, not scanning.
C19_Witness ==
  /\ lastEvent.op = "handleScan"
  /\ loading
  /\ ~scanning

\* C20: handleScan called with null or the empty string changes no state
\* variable of the component and makes no user.auth call.
C20_EmptyScanIsNoOp ==
  [][(lastEvent'.op = "handleScan" /\ lastEvent'.arg \in {JNull, EmptyText})
       => UNCHANGED <<mode, exportFormat, exportKeys, scanning, error, loading,
                      pending, onCloseCalled, reloaded>>]_vars

\* C20 witness: the scanner has called handleScan with the empty string and
\* is still scanning.
C20_Witness ==
  /\ lastEvent = Event("handleScan", EmptyText)
  /\ scanning

====
